---- MODULE Spec2Model ----
(***************************************************************************)
(* Model of the reddit-sentiment-trader core: the paper-trade store of     *)
(* src/src/database/db.py (TradingDatabase), the aggregator of             *)
(* src/src/analyzers/sentiment_analyzer.py and the rule-based classifier   *)
(* of src/src/signals/signal_generator.py.                                 *)
(*                                                                         *)
(* Python floats are modelled as rationals <<n, d>> in lowest terms with   *)
(* d > 0.  Thresholds, products and quotients are computed exactly; the    *)
(* sums of the aggregator, where binary rounding accumulates, are exact    *)
(* up to a rounding error of one unit (Ulp) in either direction.           *)
(***************************************************************************)
EXTENDS Integers, Sequences, FiniteSets, TLC

(***************************************************************************)
(* Exact rational arithmetic (the model's stand-in for Python float).      *)
(***************************************************************************)
Abs(x) == IF x < 0 THEN -x ELSE x

RECURSIVE GCD(_, _)
GCD(a, b) == IF b = 0 THEN a ELSE GCD(b, a % b)

\* n/d in lowest terms with a positive denominator (d # 0)
Rat(n, d) ==
    LET g == GCD(Abs(n), Abs(d))
        s == IF d < 0 THEN -1 ELSE 1
    IN  <<(s * n) \div g, (s * d) \div g>>

RInt(i)    == <<i, 1>>
RAdd(a, b) == Rat(a[1] * b[2] + b[1] * a[2], a[2] * b[2])
RSub(a, b) == Rat(a[1] * b[2] - b[1] * a[2], a[2] * b[2])
RMul(a, b) == Rat(a[1] * b[1], a[2] * b[2])
RDiv(a, b) == Rat(a[1] * b[2], a[2] * b[1])
RNeg(a)    == <<-a[1], a[2]>>
RLt(a, b)  == a[1] * b[2] < b[1] * a[2]
RLe(a, b)  == a[1] * b[2] <= b[1] * a[2]
RGt(a, b)  == RLt(b, a)
RMin(a, b) == IF RLe(a, b) THEN a ELSE b
RMax(a, b) == IF RLe(a, b) THEN b ELSE a

\* the rounding of a float sum that is not exact: one unit down, none, one up
FloatErrs == {-1, 0, 1}

\* the unit of rounding, smaller than every gap between the values and the
\* thresholds of the model
Ulp == Rat(1, 1000)

\* a float the binary format holds exactly, and whose sums and integer
\* multiples it holds exactly: an integer or a multiple of 1/2 or 1/4
Exact(x) == x[2] \in {1, 2, 4}

\* x rounded by e units
Fl(x, e) == RAdd(x, RMul(RInt(e), Ulp))

\* SQL NULL / Python None for an optional column; a set value is <<v>>
NULL    == <<>>
Some(v) == <<v>>

(***************************************************************************)
(* Bounds of the model.                                                    *)
(***************************************************************************)
\* rows inserted into paper_trades
MaxTrades == 1
\* rows inserted into signals
MaxSignals == 1
\* positions the store holds when the closes of the frame check start
FramePositions == 2
\* rows inserted into analyzed_posts
MaxStoredPosts == 2
\* ticks of the clock behind datetime.now()
MaxClock == 1
\* analyzed posts given to one run of the aggregator
MaxPosts == 3

(***************************************************************************)
(* Inputs of the store's operations.                                       *)
(***************************************************************************)
\* concurrent callers of close_paper_trade
Closers == {"c1", "c2"}
TradeTypes == {"BUY", "SELL", "buy"}
EntryPrices == {0, 100}
ExitPrices == {90, 110}
\* exit prices for the statistics: the entry price itself (pnl 0) and a gain
\* for BUY that is a loss for SELL
StatsExitPrices == {100, 110}
Sizes == {1000}
\* ids a caller may pass to close_paper_trade; the largest is never stored
TradeIds == 1 .. (MaxTrades + 1)
PostIds == {"p1", "p2"}

\* str.upper() on the trade types and tickers the model uses
Upper(s) ==
    CASE s = "buy"  -> "BUY"
      [] s = "sell" -> "SELL"
      [] s = "btc"  -> "BTC"
      [] s = "eth"  -> "ETH"
      [] OTHER      -> s

VARIABLES
    paper_trades,   \* table paper_trades: sequence of rows, row i has id i
    signals,        \* table signals: sequence of rows, row i has id i
    analyzed_posts, \* table analyzed_posts: sequence of rows
    post_call,      \* how the last call of add_analyzed_post ended, NULL before
    now,            \* the value datetime.now() returns
    pc,             \* pc[c]: position of caller c inside close_paper_trade
    call,           \* call[c]: arguments and locals of c's current or last call
    outcome,        \* outcome[c]: how c's last call of close_paper_trade ended
    spc,            \* position of the caller of get_performance_stats
    locals,         \* its local variables
    stats,          \* the dictionary its last call returned, NULL before
    min_confidence, \* SignalGenerator.min_confidence
    min_posts,      \* SignalGenerator.min_posts
    asset_arg,      \* the asset argument of aggregate_sentiment, "" for None
    posts,          \* posts[r]: the analyzed posts given to run r
    aggregated,     \* aggregated[r]: what aggregate_sentiment returned, NULL before
    signal,         \* signal[r]: what generate_signal returned, NULL before
    rounding,       \* how the float sums of aggregate_sentiment round
    account_balance,  \* argument of calculate_position_size
    max_position_pct, \* argument of calculate_position_size
    sized,          \* what calculate_position_size returned, NULL before
    api_key,        \* the environment variable ANTHROPIC_API_KEY is set
    records,        \* generate_signals_from_posts: argument analyzed_posts
    target_assets,  \* generate_signals_from_posts: argument target_assets
    generated       \* generated[k]: how call k of it ended, NULL before

vars == <<paper_trades, signals, analyzed_posts, post_call, now, pc, call, outcome,
          spc, locals, stats, min_confidence, min_posts, asset_arg, posts,
          aggregated, signal, rounding, account_balance, max_position_pct,
          sized, api_key, records, target_assets, generated>>

storeVars == <<paper_trades, signals, analyzed_posts>>
closeVars == <<pc, call, outcome>>
statsVars == <<spc, locals, stats>>
sizeVars  == <<account_balance, max_position_pct, sized>>
genVars   == <<api_key, records, target_assets, generated>>
pipeVars  == <<min_confidence, min_posts, asset_arg, posts, aggregated,
               signal, rounding, sizeVars, genVars>>

\* the calls of generate_signals_from_posts, each in a process of its own
GenCalls == {1, 2}

\* target_assets = None
NoTargets == [given |-> FALSE, assets |-> <<>>]

\* the runs of the aggregator and classifier: on the posts given, on their
\* mirror image, and on the posts given in another order
Runs == {"orig", "mirror", "permuted"}
MirrorRuns == {"orig", "mirror"}

NoCall == [trade_id |-> 0, exit_price |-> 0, result |-> NULL, seen |-> ""]

\* how a call ended: state is "none" before the first call, then "running",
\* "returned" (the function returned None) or "raised" (exception names it)
NoOutcome == [state |-> "none", exception |-> "", row_found |-> FALSE]

\* the rounding of each of the three sums of aggregate_sentiment
Roundings == [avg_sentiment_score : FloatErrs, avg_confidence : FloatErrs,
              weighted_sentiment : FloatErrs]

\* the roundings of the two sums that generate_signal reads
ClassifierRoundings == {r \in Roundings : r.avg_sentiment_score = 0}

NoRounding == [avg_sentiment_score |-> 0, avg_confidence |-> 0,
               weighted_sentiment |-> 0]

NoLocals == [total_signals |-> 0, total_trades |-> 0, open_trades |-> 0,
             closed_stats |-> NULL]

StoreInit ==
    /\ paper_trades = <<>>
    /\ signals = <<>>
    /\ analyzed_posts = <<>>
    /\ post_call = NULL
    /\ now = 0
    /\ pc = [c \in Closers |-> "idle"]
    /\ call = [c \in Closers |-> NoCall]
    /\ outcome = [c \in Closers |-> NoOutcome]
    /\ spc = "idle"
    /\ locals = NoLocals
    /\ stats = NULL

\* no call of calculate_position_size
SizeIdle ==
    /\ account_balance = RInt(10000)
    /\ max_position_pct = Rat(1, 10)
    /\ sized = NULL

\* no call of generate_signals_from_posts
GenIdle ==
    /\ api_key = TRUE
    /\ records = <<>>
    /\ target_assets = NoTargets
    /\ generated = [k \in GenCalls |-> NULL]

\* no SignalGenerator at work: the store's specifications
PipeIdle ==
    /\ min_confidence = <<3, 5>>
    /\ min_posts = 3
    /\ asset_arg = ""
    /\ posts = [r \in Runs |-> <<>>]
    /\ aggregated = [r \in Runs |-> NULL]
    /\ signal = [r \in Runs |-> NULL]
    /\ rounding = NoRounding
    /\ SizeIdle
    /\ GenIdle

Init == StoreInit /\ PipeIdle

\* the clock behind datetime.now() advances
Tick ==
    /\ now < MaxClock
    /\ now' = now + 1
    /\ UNCHANGED <<post_call, storeVars, closeVars, statsVars, pipeVars>>

(***************************************************************************)
(* add_signal, add_paper_trade, add_analyzed_post: one INSERT and commit.  *)
(***************************************************************************)
add_signal(asset, signal_type) ==
    /\ Len(signals) < MaxSignals
    /\ signals' = Append(signals, [asset |-> asset, signal_type |-> signal_type,
                                   status |-> "active"])
    /\ UNCHANGED <<post_call, paper_trades, analyzed_posts, now, closeVars, statsVars,
                   pipeVars>>

\* the row INSERT INTO paper_trades stores: the columns the statement does
\* not name take their defaults (status 'open', the others NULL)
NewTrade(signal_id, asset, trade_type, entry_price, position_size) ==
    [signal_id |-> signal_id, asset |-> asset, trade_type |-> trade_type,
     entry_price |-> entry_price, exit_price |-> NULL,
     position_size |-> position_size, pnl |-> NULL, status |-> "open",
     closed_at |-> NULL]

add_paper_trade(signal_id, asset, trade_type, entry_price, position_size) ==
    /\ Len(paper_trades) < MaxTrades
    /\ paper_trades' = Append(paper_trades,
           NewTrade(signal_id, asset, trade_type, entry_price, position_size))
    /\ UNCHANGED <<post_call, signals, analyzed_posts, now, closeVars, statsVars,
                   pipeVars>>

(***************************************************************************)
(* close_paper_trade(trade_id, exit_price), in the two statements it       *)
(* sends: the SELECT runs outside any transaction, the UPDATE and its      *)
(* commit are one transaction.  Other connections run between the two.     *)
(***************************************************************************)
\* PnL with the SELL branch lost: every trade is priced as a BUY
PnLAlwaysLong(trade_type, entry_price, exit_price, position_size) ==
    RMul(Rat(exit_price - entry_price, entry_price), RInt(position_size))

\* the PnL computed at lines 125-128, entry_price # 0
PnL(trade_type, entry_price, exit_price, position_size) ==
    IF Upper(trade_type) = "BUY"
    THEN RMul(Rat(exit_price - entry_price, entry_price), RInt(position_size))
    ELSE RMul(Rat(entry_price - exit_price, entry_price), RInt(position_size))

\* the UPDATE with a status that toggles instead of being set to 'closed'
ClosedTradeToggle(row, exit_price, pnl, at) ==
    [row EXCEPT !.exit_price = Some(exit_price), !.pnl = Some(pnl),
                !.status = IF @ = "open" THEN "closed" ELSE "open",
                !.closed_at = Some(at)]

\* the UPDATE with pnl left out of its SET list
ClosedTradeNoPnl(row, exit_price, pnl, at) ==
    [row EXCEPT !.exit_price = Some(exit_price), !.status = "closed",
                !.closed_at = Some(at)]

\* the row after UPDATE ... SET exit_price, pnl, status = 'closed', closed_at
ClosedTrade(row, exit_price, pnl, at) ==
    [row EXCEPT !.exit_price = Some(exit_price), !.pnl = Some(pnl),
                !.status = "closed", !.closed_at = Some(at)]

\* the UPDATE without its WHERE clause: every row is closed
UpdateEveryRow(rows, trade_id, exit_price, pnl, at) ==
    [i \in DOMAIN rows |-> ClosedTrade(rows[i], exit_price, pnl, at)]

\* the table after UPDATE paper_trades SET ... WHERE id = trade_id
UpdateWhereId(rows, trade_id, exit_price, pnl, at) ==
    [rows EXCEPT ![trade_id] = ClosedTrade(@, exit_price, pnl, at)]

\* SELECT entry_price, position_size, trade_type ... WHERE id = ?; fetchone().
\* No row: the function closes the connection and returns None.
CloseSelect(c, trade_id, exit_price) ==
    /\ pc[c] = "idle"
    /\ LET found == trade_id \in DOMAIN paper_trades
           row   == paper_trades[trade_id]
       IN  /\ call' = [call EXCEPT ![c] =
                [trade_id |-> trade_id, exit_price |-> exit_price,
                 result |-> IF found
                            THEN Some(<<row.entry_price, row.position_size,
                                        row.trade_type>>)
                            ELSE NULL,
                 seen |-> IF found THEN row.status ELSE ""]]
           /\ pc' = [pc EXCEPT ![c] = IF found THEN "update" ELSE "idle"]
           /\ outcome' = [outcome EXCEPT ![c] =
                  [state |-> IF found THEN "running" ELSE "returned",
                   exception |-> "", row_found |-> found]]
    /\ UNCHANGED <<post_call, storeVars, now, statsVars, pipeVars>>

\* lines 122-136: the PnL, then UPDATE ... WHERE id = ? and commit.
\* A zero entry_price raises ZeroDivisionError before the UPDATE.
CloseUpdate(c) ==
    /\ pc[c] = "update"
    /\ LET entry_price   == call[c].result[1][1]
           position_size == call[c].result[1][2]
           trade_type    == call[c].result[1][3]
           trade_id      == call[c].trade_id
       IN  IF entry_price = 0
           THEN /\ outcome' = [outcome EXCEPT ![c] =
                       [@ EXCEPT !.state = "raised",
                                 !.exception = "ZeroDivisionError"]]
                /\ UNCHANGED paper_trades
           ELSE /\ paper_trades' =
                       UpdateWhereId(paper_trades, trade_id, call[c].exit_price,
                           PnL(trade_type, entry_price, call[c].exit_price,
                               position_size),
                           now)
                /\ outcome' = [outcome EXCEPT ![c].state = "returned"]
    /\ pc' = [pc EXCEPT ![c] = "idle"]
    /\ call' = [call EXCEPT ![c] = NoCall]
    /\ UNCHANGED <<post_call, signals, analyzed_posts, now, statsVars, pipeVars>>

(***************************************************************************)
(* add_analyzed_post: INSERT, the UNIQUE constraint on post_id raises      *)
(* IntegrityError, which the function swallows.                            *)
(***************************************************************************)
PostIdsStored == {analyzed_posts[i].post_id : i \in DOMAIN analyzed_posts}

\* INSERT OR REPLACE: the row of the same post_id gives way to the new one
InsertOrReplace(rows, row) ==
    IF \E i \in DOMAIN rows : rows[i].post_id = row.post_id
    THEN [i \in DOMAIN rows |->
              IF rows[i].post_id = row.post_id THEN row ELSE rows[i]]
    ELSE Append(rows, row)

\* INSERT INTO analyzed_posts under UNIQUE(post_id): the statement fails with
\* IntegrityError and stores nothing when the post_id is there
InsertIfAbsent(rows, row) ==
    IF \E i \in DOMAIN rows : rows[i].post_id = row.post_id
    THEN rows
    ELSE Append(rows, row)

\* post_call records the row given, whether the INSERT hit the constraint,
\* and the exception that left the function ("" for none: the except clause
\* passes)
add_analyzed_post(post_id, sentiment, sentiment_score) ==
    LET row == [post_id |-> post_id, sentiment |-> sentiment,
                sentiment_score |-> sentiment_score]
    IN  /\ Len(analyzed_posts) < MaxStoredPosts \/ post_id \in PostIdsStored
        /\ analyzed_posts' = InsertIfAbsent(analyzed_posts, row)
        /\ post_call' = Some([row |-> row,
                              integrity_error |-> post_id \in PostIdsStored,
                              exception |-> ""])
        /\ UNCHANGED <<paper_trades, signals, now, closeVars, statsVars,
                       pipeVars>>

(***************************************************************************)
(* get_performance_stats(): five SELECTs on one connection, each its own   *)
(* read transaction, so other connections commit between them.             *)
(***************************************************************************)
\* the ids of the rows WHERE status = st
WithStatus(st) == {i \in DOMAIN paper_trades : paper_trades[i].status = st}

\* SUM(pnl) over the rows ids; NULL pnl are skipped as SQL does
RECURSIVE SumPnl(_)
SumPnl(ids) ==
    IF ids = {} THEN RInt(0)
    ELSE LET i == CHOOSE j \in ids : TRUE
         IN  IF paper_trades[i].pnl = NULL
             THEN SumPnl(ids \ {i})
             ELSE RAdd(paper_trades[i].pnl[1], SumPnl(ids \ {i}))

\* the row of the query with pnl >= 0 for its winners
ClosedStatsZeroWins ==
    LET closed  == WithStatus("closed")
        priced  == {i \in closed : paper_trades[i].pnl # NULL}
        winners == {i \in priced : ~RLt(paper_trades[i].pnl[1], RInt(0))}
    IN  [closed_count |-> Cardinality(closed),
         total_pnl |-> SumPnl(priced),
         avg_pnl |-> IF priced = {} THEN RInt(0)
                     ELSE RDiv(SumPnl(priced), RInt(Cardinality(priced))),
         winning_trades |-> Cardinality(winners)]

\* the row the query at lines 211-219 returns
ClosedStats ==
    LET closed  == WithStatus("closed")
        priced  == {i \in closed : paper_trades[i].pnl # NULL}
        winners == {i \in priced : RGt(paper_trades[i].pnl[1], RInt(0))}
    IN  [closed_count |-> Cardinality(closed),
         total_pnl |-> SumPnl(priced),
         avg_pnl |-> IF priced = {} THEN RInt(0)
                     ELSE RDiv(SumPnl(priced), RInt(Cardinality(priced))),
         winning_trades |-> Cardinality(winners)]

\* the dictionary built at lines 229-239
StatsDict(l, posts_24h) ==
    [total_signals |-> l.total_signals,
     total_trades |-> l.total_trades,
     open_trades |-> l.open_trades,
     closed_trades |-> l.closed_stats[1].closed_count,
     total_pnl |-> l.closed_stats[1].total_pnl,
     avg_pnl |-> l.closed_stats[1].avg_pnl,
     winning_trades |-> l.closed_stats[1].winning_trades,
     win_rate |-> IF l.closed_stats[1].closed_count > 0
                  THEN RMul(Rat(l.closed_stats[1].winning_trades,
                                l.closed_stats[1].closed_count), RInt(100))
                  ELSE RInt(0),
     posts_analyzed_24h |-> posts_24h]

\* SELECT COUNT(*) FROM signals
StatsTotalSignals ==
    /\ spc \in {"idle", "returned"}
    /\ locals' = [NoLocals EXCEPT !.total_signals = Len(signals)]
    /\ stats' = NULL
    /\ spc' = "total_trades"
    /\ UNCHANGED <<post_call, storeVars, now, closeVars, pipeVars>>

\* SELECT COUNT(*) FROM paper_trades
StatsTotalTrades ==
    /\ spc = "total_trades"
    /\ locals' = [locals EXCEPT !.total_trades = Len(paper_trades)]
    /\ spc' = "open_trades"
    /\ UNCHANGED <<post_call, storeVars, now, closeVars, stats, pipeVars>>

\* SELECT COUNT(*) FROM paper_trades WHERE status = 'open'
StatsOpenTrades ==
    /\ spc = "open_trades"
    /\ locals' = [locals EXCEPT !.open_trades = Cardinality(WithStatus("open"))]
    /\ spc' = "closed_stats"
    /\ UNCHANGED <<post_call, storeVars, now, closeVars, stats, pipeVars>>

\* SELECT COUNT(*), SUM(pnl), AVG(pnl), COUNT(pnl > 0) ... WHERE status = 'closed'
StatsClosedStats ==
    /\ spc = "closed_stats"
    /\ locals' = [locals EXCEPT !.closed_stats = Some(ClosedStats)]
    /\ spc' = "posts_24h"
    /\ UNCHANGED <<post_call, storeVars, now, closeVars, stats, pipeVars>>

\* SELECT COUNT(*) FROM analyzed_posts WHERE timestamp > now - 24 hours (every
\* row of a run is younger than that), then the dictionary is returned
StatsReturn ==
    /\ spc = "posts_24h"
    /\ stats' = Some(StatsDict(locals, Len(analyzed_posts)))
    /\ spc' = "returned"
    /\ UNCHANGED <<post_call, storeVars, now, closeVars, locals, pipeVars>>

(***************************************************************************)
(* SentimentAnalyzer.aggregate_sentiment(analyzed_posts, asset).  A post   *)
(* is a dict: sentiment, sentiment_score, confidence, mentioned_assets and, *)
(* when the scraper set it, score (the engagement).                        *)
(***************************************************************************)
\* dict.get(k, default)
Get(d, k, default) == IF k \in DOMAIN d THEN d[k] ELSE default

Range(q) == {q[i] : i \in DOMAIN q}

\* the filter that compares the tickers as they are spelled
RelevantPostsCaseSensitive(post_list, asset) ==
    IF asset # ""
    THEN LET Mentions(p) == asset \in Range(Get(p, "mentioned_assets", <<>>))
         IN  SelectSeq(post_list, Mentions)
    ELSE post_list

\* lines 132-138: the posts that mention asset, compared in upper case; every
\* post when asset is None or empty
RelevantPosts(post_list, asset) ==
    IF asset # ""
    THEN LET Mentions(p) ==
                 Upper(asset) \in {Upper(a) : a \in Range(Get(p, "mentioned_assets", <<>>))}
         IN  SelectSeq(post_list, Mentions)
    ELSE post_list

\* sum(1 for p in relevant_posts if p['sentiment'] == label)
CountSentiment(relevant_posts, label) ==
    Cardinality({i \in DOMAIN relevant_posts : relevant_posts[i].sentiment = label})

\* the weight floored at 0: a post without engagement weighs nothing
WeightFlooredAtZero(p) == IF Get(p, "score", 1) >= 0 THEN Get(p, "score", 1) ELSE 0

\* the weight without the floor
WeightUnfloored(p) == Get(p, "score", 1)

\* max(p.get('score', 1), 1)
Weight(p) == IF Get(p, "score", 1) >= 1 THEN Get(p, "score", 1) ELSE 1

\* sum(...) of the first n values of q, added left to right from 0
RECURSIVE SumFirst(_, _)
SumFirst(q, n) ==
    IF n = 0 THEN RInt(0) ELSE RAdd(SumFirst(q, n - 1), q[n])

\* sum(q)
Sum(q) == SumFirst(q, Len(q))

\* the float evaluation of sum(values[i] * factors[i]) can round: a value is
\* not exact, and a factor is not 1, or two different terms are added, or
\* more than two terms (x + x is exact, x + x + x is not)
Rounds(values, factors) ==
    /\ \E i \in DOMAIN values : ~Exact(values[i])
    /\ \/ \E i \in DOMAIN factors : factors[i] # RInt(1)
       \/ Len(values) > 2
       \/ Len(values) = 2 /\ values[1] # values[2]

\* total / count in floats, for a total whose summation rounds by e units
FloatQuotient(total, count, rounds, e) ==
    IF rounds THEN Fl(RDiv(total, count), e) ELSE RDiv(total, count)

\* lines 140-150: the dictionary returned for no relevant post
EmptyAggregate(asset) ==
    [asset |-> IF asset # "" THEN asset ELSE "ALL",
     post_count |-> 0,
     avg_sentiment_score |-> RInt(0),
     bullish_count |-> 0,
     bearish_count |-> 0,
     neutral_count |-> 0,
     avg_confidence |-> RInt(0),
     weighted_sentiment |-> RInt(0)]

aggregate_sentiment(post_list, asset, rnd) ==
    LET relevant_posts == RelevantPosts(post_list, asset)
        total_posts    == Len(relevant_posts)
        bullish_count  == CountSentiment(relevant_posts, "bullish")
        bearish_count  == CountSentiment(relevant_posts, "bearish")
        neutral_count  == CountSentiment(relevant_posts, "neutral")
        scores         == [i \in DOMAIN relevant_posts |->
                               relevant_posts[i].sentiment_score]
        confidences    == [i \in DOMAIN relevant_posts |->
                               relevant_posts[i].confidence]
        weights        == [i \in DOMAIN relevant_posts |->
                               RInt(Weight(relevant_posts[i]))]
        weighted       == [i \in DOMAIN relevant_posts |->
                               RMul(relevant_posts[i].sentiment_score,
                                    RInt(Weight(relevant_posts[i])))]
        total_weight   == Sum(weights)
        ones           == [i \in DOMAIN relevant_posts |-> RInt(1)]
    IN  IF total_posts = 0
        THEN EmptyAggregate(asset)
        ELSE [asset |-> IF asset # "" THEN asset ELSE "ALL",
              post_count |-> total_posts,
              avg_sentiment_score |->
                  FloatQuotient(Sum(scores), RInt(total_posts),
                                Rounds(scores, ones), rnd.avg_sentiment_score),
              bullish_count |-> bullish_count,
              bearish_count |-> bearish_count,
              neutral_count |-> neutral_count,
              bullish_pct |-> RMul(Rat(bullish_count, total_posts), RInt(100)),
              bearish_pct |-> RMul(Rat(bearish_count, total_posts), RInt(100)),
              avg_confidence |->
                  FloatQuotient(Sum(confidences), RInt(total_posts),
                                Rounds(confidences, ones), rnd.avg_confidence),
              weighted_sentiment |->
                  IF RGt(total_weight, RInt(0))
                  THEN FloatQuotient(Sum(weighted), total_weight,
                                     Rounds(scores, weights),
                                     rnd.weighted_sentiment)
                  ELSE RInt(0)]

(***************************************************************************)
(* SignalGenerator.generate_signal(aggregated_sentiment).                  *)
(***************************************************************************)
\* the None that generate_signal returns, and the "no tier" of its if chain
NoSignal == [signal_type |-> "None"]

\* the minimum requirements without the post count
MeetsMinimumNoCount(agg, min_conf, min_count) ==
    ~RLt(agg.avg_confidence, min_conf)

\* lines 38-43: the minimum requirements
MeetsMinimum(agg, min_conf, min_count) ==
    /\ ~(agg.post_count < min_count)
    /\ ~RLt(agg.avg_confidence, min_conf)

Tier(signal_type, confidence_score, reasoning) ==
    [signal_type |-> signal_type, confidence_score |-> confidence_score,
     reasoning |-> reasoning]

\* the if chain with the moderate bullish branch tested before the strong one
TierOfModerateFirst(avg_confidence, weighted_sentiment, bullish_pct, bearish_pct) ==
    IF RGt(weighted_sentiment, Rat(1, 4)) /\ RGt(bullish_pct, RInt(50))
    THEN Tier("BUY",
              RMin(RMul(RMul(avg_confidence, Rat(4, 5)), RDiv(bullish_pct, RInt(100))),
                   RInt(1)),
              "Moderate bullish sentiment")
    ELSE IF RGt(weighted_sentiment, Rat(1, 2)) /\ RGt(bullish_pct, RInt(60))
    THEN Tier("BUY",
              RMin(RMul(avg_confidence, RDiv(bullish_pct, RInt(100))), RInt(1)),
              "Strong bullish sentiment detected")
    ELSE IF RLt(weighted_sentiment, Rat(-1, 2)) /\ RGt(bearish_pct, RInt(60))
    THEN Tier("SELL",
              RMin(RMul(avg_confidence, RDiv(bearish_pct, RInt(100))), RInt(1)),
              "Strong bearish sentiment detected")
    ELSE IF RLt(weighted_sentiment, Rat(-1, 4)) /\ RGt(bearish_pct, RInt(50))
    THEN Tier("SELL",
              RMin(RMul(RMul(avg_confidence, Rat(4, 5)), RDiv(bearish_pct, RInt(100))),
                   RInt(1)),
              "Moderate bearish sentiment")
    ELSE NoSignal

\* the if chain with the 0.8 factor missing from the moderate bearish branch
TierOfBearishUnscaled(avg_confidence, weighted_sentiment, bullish_pct, bearish_pct) ==
    IF RGt(weighted_sentiment, Rat(1, 2)) /\ RGt(bullish_pct, RInt(60))
    THEN Tier("BUY",
              RMin(RMul(avg_confidence, RDiv(bullish_pct, RInt(100))), RInt(1)),
              "Strong bullish sentiment detected")
    ELSE IF RGt(weighted_sentiment, Rat(1, 4)) /\ RGt(bullish_pct, RInt(50))
    THEN Tier("BUY",
              RMin(RMul(RMul(avg_confidence, Rat(4, 5)), RDiv(bullish_pct, RInt(100))),
                   RInt(1)),
              "Moderate bullish sentiment")
    ELSE IF RLt(weighted_sentiment, Rat(-1, 2)) /\ RGt(bearish_pct, RInt(60))
    THEN Tier("SELL",
              RMin(RMul(avg_confidence, RDiv(bearish_pct, RInt(100))), RInt(1)),
              "Strong bearish sentiment detected")
    ELSE IF RLt(weighted_sentiment, Rat(-1, 4)) /\ RGt(bearish_pct, RInt(50))
    THEN Tier("SELL",
              RMin(RMul(avg_confidence, RDiv(bearish_pct, RInt(100))), RInt(1)),
              "Moderate bearish sentiment")
    ELSE NoSignal

\* lines 45-76: signal type, confidence and reasoning of the first branch of
\* the if / elif chain that matches, NoSignal for the else branch
TierOf(avg_confidence, weighted_sentiment, bullish_pct, bearish_pct) ==
    IF RGt(weighted_sentiment, Rat(1, 2)) /\ RGt(bullish_pct, RInt(60))
    THEN Tier("BUY",
              RMin(RMul(avg_confidence, RDiv(bullish_pct, RInt(100))), RInt(1)),
              "Strong bullish sentiment detected")
    ELSE IF RGt(weighted_sentiment, Rat(1, 4)) /\ RGt(bullish_pct, RInt(50))
    THEN Tier("BUY",
              RMin(RMul(RMul(avg_confidence, Rat(4, 5)), RDiv(bullish_pct, RInt(100))),
                   RInt(1)),
              "Moderate bullish sentiment")
    ELSE IF RLt(weighted_sentiment, Rat(-1, 2)) /\ RGt(bearish_pct, RInt(60))
    THEN Tier("SELL",
              RMin(RMul(avg_confidence, RDiv(bearish_pct, RInt(100))), RInt(1)),
              "Strong bearish sentiment detected")
    ELSE IF RLt(weighted_sentiment, Rat(-1, 4)) /\ RGt(bearish_pct, RInt(50))
    THEN Tier("SELL",
              RMin(RMul(RMul(avg_confidence, Rat(4, 5)), RDiv(bearish_pct, RInt(100))),
                   RInt(1)),
              "Moderate bearish sentiment")
    ELSE NoSignal

\* the last check left out
MeetsThresholdAlways(confidence_score, min_conf) == TRUE

\* lines 78-80: the confidence meets the minimum threshold
MeetsThreshold(confidence_score, min_conf) == ~RLt(confidence_score, min_conf)

generate_signal(aggregated_sentiment, min_conf, min_count) ==
    LET post_count         == aggregated_sentiment.post_count
        avg_confidence     == aggregated_sentiment.avg_confidence
        weighted_sentiment == aggregated_sentiment.weighted_sentiment
        bullish_pct        == Get(aggregated_sentiment, "bullish_pct", RInt(0))
        bearish_pct        == Get(aggregated_sentiment, "bearish_pct", RInt(0))
        tier == TierOf(avg_confidence, weighted_sentiment, bullish_pct, bearish_pct)
    IN  IF ~MeetsMinimum(aggregated_sentiment, min_conf, min_count) THEN NoSignal
        ELSE IF tier = NoSignal THEN NoSignal
        ELSE IF ~MeetsThreshold(tier.confidence_score, min_conf) THEN NoSignal
        ELSE [asset |-> aggregated_sentiment.asset,
              signal_type |-> tier.signal_type,
              confidence_score |-> tier.confidence_score,
              sentiment_score |-> weighted_sentiment,
              post_count |-> post_count,
              reasoning |-> tier.reasoning,
              bullish_pct |-> bullish_pct,
              bearish_pct |-> bearish_pct]

(***************************************************************************)
(* SignalGenerator.calculate_position_size(signal, account_balance,        *)
(* max_position_pct).                                                      *)
(***************************************************************************)
\* round(x, 2): the nearest multiple of 1/100, a tie to the even one
Round2(x) ==
    LET n == 100 * x[1]
        q == n \div x[2]
        r == n % x[2]
    IN  IF 2 * r < x[2] THEN Rat(q, 100)
        ELSE IF 2 * r > x[2] THEN Rat(q + 1, 100)
        ELSE IF q % 2 = 0 THEN Rat(q, 100)
        ELSE Rat(q + 1, 100)

\* lines 168-175
calculate_position_size(sig, balance, pct) ==
    LET confidence        == sig.confidence_score
        base_position     == RMul(balance, pct)
        scaled_confidence == RDiv(RSub(confidence, Rat(3, 5)), Rat(2, 5))
        size              ==
            RMul(base_position, RAdd(Rat(1, 2), RMul(Rat(1, 2), scaled_confidence)))
    IN  Round2(size)

\* a caller sizes the position of the signal it holds
SizePosition ==
    /\ signal["orig"] # NULL
    /\ sized = NULL
    /\ sized' = Some(calculate_position_size(signal["orig"][1],
                                             account_balance, max_position_pct))
    /\ UNCHANGED <<post_call, storeVars, now, closeVars, statsVars, min_confidence,
                   min_posts, asset_arg, posts, aggregated, signal, rounding,
                   account_balance, max_position_pct, genVars>>

(***************************************************************************)
(* SignalGenerator.generate_signals_from_posts(analyzed_posts,             *)
(* target_assets).                                                         *)
(***************************************************************************)
\* lines 113-115: the set of the tickers that the posts mention
AllAssets(post_list) ==
    UNION {Range(Get(post_list[i], "mentioned_assets", <<>>)) : i \in DOMAIN post_list}

\* line 116, list(all_assets): the elements of the set, each once, in the
\* order in which the set iterates; that order follows the hashes of the
\* strings, which differ from process to process
ListsOf(S) == {q \in [1 .. Cardinality(S) -> S] : Range(q) = S}

\* line 112, not target_assets: None and the empty list alike
Falsy(targets) == ~targets.given \/ targets.assets = <<>>

\* lines 112-116: the lists of assets the loop can run over
TargetLists(post_list, targets) ==
    IF Falsy(targets) THEN ListsOf(AllAssets(post_list)) ELSE {targets.assets}

\* lines 119-124: the signals of the first n assets of the list, in its order
RECURSIVE SignalsFirst(_, _, _, _, _, _)
SignalsFirst(post_list, assets, n, min_conf, min_count, rnd) ==
    IF n = 0 THEN <<>>
    ELSE LET before == SignalsFirst(post_list, assets, n - 1, min_conf, min_count, rnd)
             agg    == aggregate_sentiment(post_list, assets[n], rnd)
             sig    == generate_signal(agg, min_conf, min_count)
         IN  IF sig # NoSignal THEN Append(before, sig) ELSE before

\* how a call ends: it returns a list of signals, or an exception leaves it
Returned(sigs) == [raised |-> "", signals |-> sigs]
Raised(exception) == [raised |-> exception, signals |-> <<>>]

\* call k of generate_signals_from_posts, start to end: line 108 constructs a
\* SentimentAnalyzer, whose __init__ (sentiment_analyzer.py:14-16) raises
\* ValueError without an API key
Generate(k) ==
    /\ generated[k] = NULL
    /\ IF ~api_key
       THEN generated' = [generated EXCEPT ![k] = Some(Raised("ValueError"))]
       ELSE \E assets \in TargetLists(records, target_assets) :
                generated' = [generated EXCEPT ![k] =
                    Some(Returned(SignalsFirst(records, assets, Len(assets),
                                               min_confidence, min_posts,
                                               rounding)))]
    /\ UNCHANGED <<post_call, storeVars, now, closeVars, statsVars, min_confidence,
                   min_posts, asset_arg, posts, aggregated, signal, rounding,
                   sizeVars, api_key, records, target_assets>>

(***************************************************************************)
(* Calls of the two functions.                                             *)
(***************************************************************************)
\* the rounding of run r: binary rounding is symmetric in the sign, so the
\* sums of the negated scores of the mirror image round the opposite way
RoundingOf(r) ==
    IF r = "mirror"
    THEN [rounding EXCEPT !.avg_sentiment_score = -@, !.weighted_sentiment = -@]
    ELSE rounding

\* run r calls aggregate_sentiment on its posts
Aggregate(r) ==
    /\ aggregated[r] = NULL
    /\ r = "mirror" => signal["orig"] # NULL
    /\ aggregated' = [aggregated EXCEPT ![r] =
                         Some(aggregate_sentiment(posts[r], asset_arg,
                                                  RoundingOf(r)))]
    /\ UNCHANGED <<post_call, storeVars, now, closeVars, statsVars, min_confidence,
                   min_posts, asset_arg, posts, signal, rounding, sizeVars,
                   genVars>>

\* the lists that hold the elements of q in some order
OrdersOf(q) ==
    {[i \in DOMAIN q |-> q[f[i]]] :
        f \in {g \in [DOMAIN q -> DOMAIN q] : Range(g) = DOMAIN q}}

\* sum() adds from the left, starting at 0: lists whose relevant posts are
\* the same sequence add the same floats in the same order, and x + y is
\* y + x in floats; three terms in another order round on their own
SameSums(p, q, asset) ==
    \/ RelevantPosts(p, asset) = RelevantPosts(q, asset)
    \/ Len(RelevantPosts(p, asset)) <= 2

\* a further call of aggregate_sentiment, on the posts of run "orig" in
\* another order
AggregatePermuted ==
    /\ aggregated["orig"] # NULL
    /\ aggregated["permuted"] = NULL
    /\ \E q \in OrdersOf(posts["orig"]), rnd \in Roundings :
           /\ SameSums(posts["orig"], q, asset_arg) => rnd = rounding
           /\ posts' = [posts EXCEPT !["permuted"] = q]
           /\ aggregated' = [aggregated EXCEPT !["permuted"] =
                                Some(aggregate_sentiment(q, asset_arg, rnd))]
    /\ UNCHANGED <<post_call, storeVars, now, closeVars, statsVars, min_confidence,
                   min_posts, asset_arg, signal, rounding, sizeVars, genVars>>

\* run r calls generate_signal on the aggregate it holds
Classify(r) ==
    /\ aggregated[r] # NULL
    /\ signal[r] = NULL
    /\ signal' = [signal EXCEPT ![r] =
                     Some(generate_signal(aggregated[r][1], min_confidence, min_posts))]
    /\ UNCHANGED <<post_call, storeVars, now, closeVars, statsVars, min_confidence,
                   min_posts, asset_arg, posts, aggregated, rounding, sizeVars,
                   genVars>>

(***************************************************************************)
(* Inputs of the aggregator and the classifier.                            *)
(***************************************************************************)
MinConfidenceInputs == {Rat(3, 5), Rat(4, 5)}
MinPostsInputs == {2, 3}
AssetInputs == {"btc", ""}

\* sentiment label and sentiment_score as the sentiment classifier pairs them
Labelled ==
    {<<"bullish", Rat(4, 5)>>, <<"bullish", Rat(3, 10)>>, <<"neutral", RInt(0)>>,
     <<"bearish", Rat(-3, 10)>>, <<"bearish", Rat(-4, 5)>>}

\* the engagement of the post with sentiment_score x: some posts have none
Engagement(x) == IF x \in {Rat(3, 10), Rat(-4, 5)} THEN 0 ELSE 10

\* analyzed posts: with and without engagement, one without the score key,
\* one that does not mention BTC
PostInputs ==
    {[sentiment |-> l[1], sentiment_score |-> l[2], confidence |-> Rat(9, 10),
      score |-> Engagement(l[2]), mentioned_assets |-> <<"BTC">>] : l \in Labelled}
    \cup
    {[sentiment |-> "bullish", sentiment_score |-> Rat(4, 5), confidence |-> RInt(1),
      mentioned_assets |-> <<"btc", "ETH">>],
     [sentiment |-> "bearish", sentiment_score |-> Rat(-4, 5), confidence |-> Rat(1, 2),
      score |-> 10, mentioned_assets |-> <<"ETH">>]}

PostLists == UNION {[1 .. n -> PostInputs] : n \in 0 .. MaxPosts}

\* the mirror image of a list of posts: bullish and bearish swapped, every
\* sentiment_score negated, the other fields kept
Mirror(q) ==
    [i \in DOMAIN q |->
        [q[i] EXCEPT !.sentiment = CASE @ = "bullish" -> "bearish"
                                     [] @ = "bearish" -> "bullish"
                                     [] OTHER -> @,
                     !.sentiment_score = RNeg(@)]]

\* aggregates handed to generate_signal directly: the thresholds 0.25, 0.5,
\* 50 and 60 themselves and values on both sides of each
Pcts == {0, 50, 55, 60, 70, 100}

AggregateInputs ==
    {[asset |-> "BTC", post_count |-> n, avg_confidence |-> c,
      weighted_sentiment |-> Rat(w, 20), bullish_pct |-> RInt(p[1]),
      bearish_pct |-> RInt(p[2])] :
        n \in {1, 3, 10},
        c \in {Rat(1, 2), Rat(3, 5), Rat(9, 10), RInt(1)},
        w \in {-18, -12, -10, -6, -5, 0, 5, 6, 10, 12, 18},
        p \in {x \in Pcts \X Pcts : x[1] + x[2] <= 100}}
    \cup {EmptyAggregate("BTC")}

\* positions a store can hold: opened as BUY or SELL at 0 or 100, and the
\* ones opened at 100 closed at 100 since
StoredTrades ==
    LET opened == {NewTrade(1, "BTC", t, e, 1000) : t \in {"BUY", "SELL"},
                                                   e \in EntryPrices}
    IN  opened \cup
        {ClosedTrade(row, 100, PnL(row.trade_type, row.entry_price, 100,
                                   row.position_size), 0) :
            row \in {r \in opened : r.entry_price # 0}}

\* ids passed to close_paper_trade there; the largest is not stored
FrameIds == 1 .. (FramePositions + 1)

\* the labels and scores stored with an analyzed post
PostSentiments == {"bullish", "bearish", "neutral"}
PostScores == {Rat(4, 5), Rat(-4, 5)}

\* posts given to aggregate_sentiment alone: positive, zero, negative and no
\* engagement; tickers in upper and lower case, one (BTCX) that contains
\* another, and a post without mentioned_assets
AggPostInputs ==
    {[sentiment |-> "bullish", sentiment_score |-> Rat(4, 5), confidence |-> Rat(9, 10),
      score |-> 10, mentioned_assets |-> <<"BTC">>],
     [sentiment |-> "bearish", sentiment_score |-> Rat(-4, 5), confidence |-> Rat(9, 10),
      score |-> -5, mentioned_assets |-> <<"BTC">>],
     [sentiment |-> "bullish", sentiment_score |-> RInt(1), confidence |-> RInt(1),
      score |-> 0, mentioned_assets |-> <<"btc", "ETH">>],
     [sentiment |-> "bearish", sentiment_score |-> RInt(-1), confidence |-> Rat(1, 2),
      mentioned_assets |-> <<"BTC">>],
     [sentiment |-> "neutral", sentiment_score |-> RInt(0), confidence |-> Rat(7, 10),
      score |-> 10, mentioned_assets |-> <<"BTCX">>],
     [sentiment |-> "bearish", sentiment_score |-> Rat(-4, 5), confidence |-> Rat(1, 2),
      score |-> 10, mentioned_assets |-> <<"ETH">>],
     [sentiment |-> "bullish", sentiment_score |-> Rat(4, 5), confidence |-> Rat(9, 10),
      score |-> 3]}

AggPostLists == UNION {[1 .. n -> AggPostInputs] : n \in 0 .. MaxPosts}

\* posts given in several orders: three on BTC whose scores and confidences
\* (0.1, 0.2, 0.3 and 0.7, 0.8, 0.9) are no binary fractions, one on ETH
PermPostInputs ==
    {[sentiment |-> "bullish", sentiment_score |-> Rat(k, 10),
      confidence |-> Rat(k + 6, 10), score |-> 1, mentioned_assets |-> <<"BTC">>] :
        k \in 1 .. 3}
    \cup
    {[sentiment |-> "bearish", sentiment_score |-> Rat(-1, 2), confidence |-> Rat(1, 2),
      score |-> 1, mentioned_assets |-> <<"ETH">>]}

PermPostLists == UNION {[1 .. n -> PermPostInputs] : n \in 0 .. MaxPosts}

\* the asset argument: a ticker in lower case, in upper case, None
AggAssetInputs == {"btc", "BTC", ""}

\* posts given to generate_signals_from_posts: bullish posts on SOL with the
\* same score and engagement, of confidence 0.9 and 0.7; one that mentions
\* two assets; a bearish one on BTC; a bullish one that writes btc
GenPostInputs ==
    {[sentiment |-> "bullish", sentiment_score |-> Rat(4, 5), confidence |-> c,
      score |-> 100, mentioned_assets |-> <<"SOL">>] : c \in {Rat(9, 10), Rat(7, 10)}}
    \cup
    {[sentiment |-> "bullish", sentiment_score |-> Rat(4, 5), confidence |-> Rat(9, 10),
      score |-> 100, mentioned_assets |-> <<"SOL", "BTC">>],
     [sentiment |-> "bearish", sentiment_score |-> Rat(-4, 5), confidence |-> Rat(9, 10),
      score |-> 10, mentioned_assets |-> <<"BTC">>],
     [sentiment |-> "bullish", sentiment_score |-> Rat(4, 5), confidence |-> Rat(9, 10),
      score |-> 100, mentioned_assets |-> <<"btc">>]}

GenPostLists == UNION {[1 .. n -> GenPostInputs] : n \in 0 .. MaxPosts}

\* target_assets: None, the empty list, lists of tickers
TargetInputs ==
    {NoTargets} \cup
    {[given |-> TRUE, assets |-> a] : a \in {<<>>, <<"SOL">>, <<"BTC", "SOL">>}}

\* signals handed to calculate_position_size: confidence from 0 to 1, with
\* 0.6 and values on both sides of it
SizeSignals ==
    {[asset |-> "BTC", signal_type |-> "BUY", confidence_score |-> c] :
        c \in {RInt(0), Rat(1, 5), Rat(2, 5), Rat(59, 100), Rat(3, 5),
               Rat(7, 10), Rat(4, 5), RInt(1)}}
BalanceInputs == {RInt(10000), RInt(1000), Rat(66667, 100)}
PositionPctInputs == {Rat(1, 10), Rat(1, 4), RInt(1)}

(***************************************************************************)
(* The specifications.                                                     *)
(***************************************************************************)
\* calls of close_paper_trade by two callers, on positions that are opened
NextClose ==
    \/ Tick
    \/ \E t \in TradeTypes, e \in EntryPrices, s \in Sizes :
           add_paper_trade(1, "BTC", t, e, s)
    \/ \E c \in Closers, i \in TradeIds, x \in ExitPrices : CloseSelect(c, i, x)
    \/ \E c \in Closers : CloseUpdate(c)

Spec == Init /\ [][NextClose]_vars

\* the operations on the tables signals and paper_trades that write or that
\* read in several steps, with one caller of close_paper_trade, within one
\* reading of the clock (the get_recent_* queries are single SELECTs and
\* change nothing)
NextStore ==
    \/ add_signal("BTC", "BUY")
    \/ \E t \in {"BUY", "SELL"}, e \in EntryPrices, s \in Sizes :
           add_paper_trade(1, "BTC", t, e, s)
    \/ \E i \in TradeIds, x \in StatsExitPrices : CloseSelect("c1", i, x)
    \/ CloseUpdate("c1")
    \/ StatsTotalSignals
    \/ StatsTotalTrades
    \/ StatsOpenTrades
    \/ StatsClosedStats
    \/ StatsReturn

SpecStore == Init /\ [][NextStore]_vars

\* generate_signal applied to an aggregate, for every configuration
InitClassify ==
    /\ StoreInit
    /\ min_confidence \in MinConfidenceInputs
    /\ min_posts \in MinPostsInputs
    /\ asset_arg = ""
    /\ posts = [r \in Runs |-> <<>>]
    /\ \E a \in AggregateInputs :
           aggregated = [r \in Runs |-> IF r = "orig" THEN Some(a) ELSE NULL]
    /\ signal = [r \in Runs |-> NULL]
    /\ rounding = NoRounding
    /\ SizeIdle
    /\ GenIdle

NextClassify == Classify("orig")

SpecClassify == InitClassify /\ [][NextClassify]_vars

\* aggregate_sentiment then generate_signal, on a list of posts and then on
\* its mirror image
InitMirror ==
    /\ StoreInit
    /\ min_confidence = Rat(3, 5)
    /\ min_posts \in MinPostsInputs
    /\ asset_arg \in AssetInputs
    /\ \E q \in PostLists :
           posts = [r \in Runs |-> CASE r = "orig" -> q
                                      [] r = "mirror" -> Mirror(q)
                                      [] OTHER -> <<>>]
    /\ aggregated = [r \in Runs |-> NULL]
    /\ signal = [r \in Runs |-> NULL]
    /\ rounding \in ClassifierRoundings
    /\ SizeIdle
    /\ GenIdle

NextMirror ==
    \/ \E r \in MirrorRuns : Aggregate(r)
    \/ \E r \in MirrorRuns : Classify(r)

SpecMirror == InitMirror /\ [][NextMirror]_vars

\* aggregate_sentiment applied to a list of posts
InitAggregate ==
    /\ StoreInit
    /\ min_confidence = Rat(3, 5)
    /\ min_posts = 3
    /\ asset_arg \in AggAssetInputs
    /\ \E q \in AggPostLists :
           posts = [r \in Runs |-> IF r = "orig" THEN q ELSE <<>>]
    /\ aggregated = [r \in Runs |-> NULL]
    /\ signal = [r \in Runs |-> NULL]
    /\ rounding \in Roundings
    /\ SizeIdle
    /\ GenIdle

NextAggregate == Aggregate("orig")

SpecAggregate == InitAggregate /\ [][NextAggregate]_vars

\* aggregate_sentiment applied to a list of posts and to the same posts in
\* another order
InitPermute ==
    /\ StoreInit
    /\ min_confidence = Rat(3, 5)
    /\ min_posts = 3
    /\ asset_arg = "BTC"
    /\ \E q \in PermPostLists :
           posts = [r \in Runs |-> IF r = "orig" THEN q ELSE <<>>]
    /\ aggregated = [r \in Runs |-> NULL]
    /\ signal = [r \in Runs |-> NULL]
    /\ rounding \in Roundings
    /\ SizeIdle
    /\ GenIdle

NextPermute ==
    \/ Aggregate("orig")
    \/ AggregatePermuted

SpecPermute == InitPermute /\ [][NextPermute]_vars

\* two calls of generate_signals_from_posts on the same posts, each in a
\* process of its own, with and without ANTHROPIC_API_KEY in the environment
InitGenerate ==
    /\ StoreInit
    /\ min_confidence = Rat(7, 10)
    /\ min_posts \in MinPostsInputs
    /\ asset_arg = ""
    /\ posts = [r \in Runs |-> <<>>]
    /\ aggregated = [r \in Runs |-> NULL]
    /\ signal = [r \in Runs |-> NULL]
    /\ rounding \in ClassifierRoundings
    /\ SizeIdle
    /\ api_key \in BOOLEAN
    /\ records \in GenPostLists
    /\ target_assets \in TargetInputs
    /\ generated = [k \in GenCalls |-> NULL]

NextGenerate == \E k \in GenCalls : Generate(k)

SpecGenerate == InitGenerate /\ [][NextGenerate]_vars

\* calls of close_paper_trade on a store that holds several positions and
\* a signal
InitFrame ==
    /\ paper_trades \in [1 .. FramePositions -> StoredTrades]
    /\ signals = <<[asset |-> "BTC", signal_type |-> "BUY", status |-> "active"]>>
    /\ analyzed_posts = <<>>
    /\ post_call = NULL
    /\ now = 0
    /\ pc = [c \in Closers |-> "idle"]
    /\ call = [c \in Closers |-> NoCall]
    /\ outcome = [c \in Closers |-> NoOutcome]
    /\ spc = "idle"
    /\ locals = NoLocals
    /\ stats = NULL
    /\ PipeIdle

NextFrame ==
    \/ \E c \in Closers, i \in FrameIds, x \in ExitPrices : CloseSelect(c, i, x)
    \/ \E c \in Closers : CloseUpdate(c)

SpecFrame == InitFrame /\ [][NextFrame]_vars

\* calculate_position_size applied to a signal
\* the analyzed-posts store under repeated inserts
NextPosts ==
    \E p \in PostIds, s \in PostSentiments, x \in PostScores :
        add_analyzed_post(p, s, x)

SpecPosts == Init /\ [][NextPosts]_vars

InitSize ==
    /\ StoreInit
    /\ min_confidence = Rat(3, 5)
    /\ min_posts = 3
    /\ asset_arg = ""
    /\ posts = [r \in Runs |-> <<>>]
    /\ aggregated = [r \in Runs |-> NULL]
    /\ \E sig \in SizeSignals :
           signal = [r \in Runs |-> IF r = "orig" THEN Some(sig) ELSE NULL]
    /\ rounding = NoRounding
    /\ account_balance \in BalanceInputs
    /\ max_position_pct \in PositionPctInputs
    /\ sized = NULL
    /\ GenIdle

NextSize == SizePosition

SpecSize == InitSize /\ [][NextSize]_vars

(***************************************************************************)
(* Properties of the paper-trade store.                                    *)
(***************************************************************************)
\* caller c's step is the UPDATE of its call (or the exception before it)
Completes(c) == pc[c] = "update" /\ pc'[c] = "idle"

\* C1: a close that is called on a position whose status is closed (the status
\* at its SELECT) leaves that position's row, so its pnl, exit_price and
\* closed_at, exactly as the first close set them.
C1_SecondCloseChangesNothing ==
    [][\A c \in Closers :
          (Completes(c) /\ call[c].seen = "closed")
              => paper_trades'[call[c].trade_id] = paper_trades[call[c].trade_id]]_vars

\* C2: of two closes that race on one open position (both SELECT it while it
\* is open), the one that comes second to its UPDATE is rejected: it does not
\* overwrite what the accepted close wrote.
C2_RacingCloseRejected ==
    [][\A c \in Closers :
          (/\ Completes(c)
           /\ call[c].seen = "open"
           /\ paper_trades[call[c].trade_id].status = "closed")
              => paper_trades' = paper_trades]_vars

\* C3: every dictionary get_performance_stats returns satisfies
\* open_trades + closed_trades = total_trades.
C3_StatsSnapshot ==
    stats # NULL =>
        stats[1].open_trades + stats[1].closed_trades = stats[1].total_trades

\* C4: a position is created with status open, its only transition is
\* open -> closed, and no step of any operation takes a closed position back
\* to open.
C4_ClosedIsTerminal ==
    [][\A i \in DOMAIN paper_trades' :
          IF i \in DOMAIN paper_trades
          THEN /\ paper_trades'[i].status \in {"open", "closed"}
               /\ paper_trades[i].status = "closed"
                      => paper_trades'[i].status = "closed"
          ELSE paper_trades'[i].status = "open"]_vars

\* a closed position that get_performance_stats has counted after its close
C4_Witness ==
    /\ \E i \in DOMAIN paper_trades : paper_trades[i].status = "closed"
    /\ stats # NULL
    /\ stats[1].closed_trades > 0
    /\ pc["c1"] = "update"
    /\ call["c1"].seen = "closed"

\* C5: a call of close_paper_trade whose trade_id is not stored ends with a
\* NotFoundError raised to its caller.
C5_UnknownIdRaises ==
    \A c \in Closers :
        (outcome[c].state \in {"returned", "raised"} /\ ~outcome[c].row_found)
            => (outcome[c].state = "raised"
                /\ outcome[c].exception = "NotFoundError")

\* C6: a closed position with entry_price > 0 has
\* pnl = (exit_price - entry_price) / entry_price * position_size when its
\* trade_type is BUY and (entry_price - exit_price) / entry_price *
\* position_size when it is SELL; entry 100, exit 110, size 1000 gives 100 and
\* -100; a SELL's pnl is the negation of the pnl of a BUY with the same prices
\* and size.
C6_PnlSign ==
    \A i \in DOMAIN paper_trades :
        LET r == paper_trades[i]
            e == r.entry_price
            x == r.exit_price[1]
            z == r.position_size
        IN  (r.status = "closed" /\ e > 0) =>
              /\ r.trade_type = "BUY" => r.pnl = Some(Rat((x - e) * z, e))
              /\ r.trade_type = "SELL" => r.pnl = Some(Rat((e - x) * z, e))
              /\ (e = 100 /\ x = 110 /\ z = 1000) =>
                    /\ r.trade_type = "BUY" => r.pnl = Some(RInt(100))
                    /\ r.trade_type = "SELL" => r.pnl = Some(RInt(-100))
              /\ \A j \in DOMAIN paper_trades :
                    LET q == paper_trades[j]
                    IN  (/\ q.status = "closed"
                         /\ r.trade_type = "SELL" /\ q.trade_type = "BUY"
                         /\ q.entry_price = e /\ q.exit_price = r.exit_price
                         /\ q.position_size = z)
                            => r.pnl = Some(RNeg(q.pnl[1]))

\* a SELL opened at 100 and closed at 110
C6_Witness ==
    \E i \in DOMAIN paper_trades :
        /\ paper_trades[i].status = "closed"
        /\ paper_trades[i].trade_type = "SELL"
        /\ paper_trades[i].entry_price = 100
        /\ paper_trades[i].exit_price = Some(110)

(***************************************************************************)
(* Properties of the classifier and of the aggregator.                     *)
(***************************************************************************)
\* the aggregate run "orig" holds passes both minimum requirements
PassesGates(a) ==
    /\ a.post_count >= min_posts
    /\ RLe(min_confidence, a.avg_confidence)

\* C7: every signal generate_signal returns has
\* min_confidence <= confidence_score <= 1.
C7_ConfidenceFloor ==
    (signal["orig"] # NULL /\ signal["orig"][1] # NoSignal) =>
        /\ RLe(min_confidence, signal["orig"][1].confidence_score)
        /\ RLe(signal["orig"][1].confidence_score, RInt(1))

\* an aggregate that passes both gates and is strongly bullish, whose
\* confidence avg_confidence * bullish_pct / 100 is below min_confidence, and
\* for which no signal was returned
C7_Witness ==
    /\ signal["orig"] = Some(NoSignal)
    /\ LET a == aggregated["orig"][1]
       IN  /\ PassesGates(a)
           /\ "bullish_pct" \in DOMAIN a
           /\ RGt(a.weighted_sentiment, Rat(1, 2))
           /\ RGt(a.bullish_pct, RInt(60))
           /\ RLt(RMul(a.avg_confidence, RDiv(a.bullish_pct, RInt(100))),
                  min_confidence)

\* C8: generate_signal returns no signal when post_count < min_posts or
\* avg_confidence < min_confidence, whatever the sentiment and percentages.
C8_GatesFirst ==
    signal["orig"] # NULL =>
        LET a == aggregated["orig"][1]
        IN  (a.post_count < min_posts \/ RLt(a.avg_confidence, min_confidence))
                => signal["orig"][1] = NoSignal

\* weighted_sentiment 0.9, bullish_pct 100, post_count 1 under min_posts 3,
\* classified
C8_Witness ==
    /\ signal["orig"] # NULL
    /\ min_posts = 3
    /\ LET a == aggregated["orig"][1]
       IN  /\ a.post_count = 1
           /\ a.weighted_sentiment = Rat(9, 10)
           /\ Get(a, "bullish_pct", RInt(0)) = RInt(100)
           /\ RLe(min_confidence, a.avg_confidence)

\* the tier table of the classifier: <<signal type, confidence_score>> of the
\* first tier that matches, <<"None", 0>> when none does
C9_FirstTier(c, w, b, r) ==
    IF RGt(w, Rat(1, 2)) /\ RGt(b, RInt(60))
    THEN <<"BUY", RMin(RDiv(RMul(c, b), RInt(100)), RInt(1))>>
    ELSE IF RGt(w, Rat(1, 4)) /\ RGt(b, RInt(50))
    THEN <<"BUY", RMin(RDiv(RMul(RMul(c, Rat(8, 10)), b), RInt(100)), RInt(1))>>
    ELSE IF RLt(w, Rat(-1, 2)) /\ RGt(r, RInt(60))
    THEN <<"SELL", RMin(RDiv(RMul(c, r), RInt(100)), RInt(1))>>
    ELSE IF RLt(w, Rat(-1, 4)) /\ RGt(r, RInt(50))
    THEN <<"SELL", RMin(RDiv(RMul(RMul(c, Rat(8, 10)), r), RInt(100)), RInt(1))>>
    ELSE <<"None", RInt(0)>>

\* C9: for an aggregate that passes both gates, the signal returned has the
\* type and confidence_score of the first matching tier (strong bullish,
\* moderate bullish, strong bearish, moderate bearish, strict comparisons);
\* no signal is returned when no tier matches (or when that confidence is
\* below min_confidence); a strongly bullish aggregate never gets the 0.8
\* factor; 0.6 / 70 / 0.9 gives BUY with confidence 0.63.
C9_FirstTierWins ==
    (signal["orig"] # NULL /\ PassesGates(aggregated["orig"][1])) =>
        LET a   == aggregated["orig"][1]
            sig == signal["orig"][1]
            c   == a.avg_confidence
            w   == a.weighted_sentiment
            b   == Get(a, "bullish_pct", RInt(0))
            r   == Get(a, "bearish_pct", RInt(0))
            t   == C9_FirstTier(c, w, b, r)
        IN  /\ IF t[1] = "None" \/ RLt(t[2], min_confidence)
               THEN sig = NoSignal
               ELSE /\ sig # NoSignal
                    /\ sig.signal_type = t[1]
                    /\ sig.confidence_score = t[2]
            /\ (sig # NoSignal /\ RGt(w, Rat(1, 2)) /\ RGt(b, RInt(60)))
                   => sig.confidence_score = RMin(RDiv(RMul(c, b), RInt(100)), RInt(1))
            /\ (w = Rat(6, 10) /\ b = RInt(70) /\ c = Rat(9, 10)
                    /\ min_confidence = Rat(6, 10))
                   => /\ sig # NoSignal
                      /\ sig.signal_type = "BUY"
                      /\ sig.confidence_score = Rat(63, 100)

\* weighted_sentiment 0.6, bullish_pct 70, avg_confidence 0.9: it matches the
\* strong and the moderate bullish tier, and was classified
C9_Witness ==
    /\ signal["orig"] # NULL
    /\ signal["orig"][1] # NoSignal
    /\ PassesGates(aggregated["orig"][1])
    /\ aggregated["orig"][1].weighted_sentiment = Rat(6, 10)
    /\ aggregated["orig"][1].bullish_pct = RInt(70)
    /\ aggregated["orig"][1].avg_confidence = Rat(9, 10)

\* C10: when the posts give a BUY signal, their mirror image gives a SELL
\* signal with the same confidence_score and post_count; when they give no
\* signal, so does the mirror image.
C10_MirrorSymmetry ==
    (signal["orig"] # NULL /\ signal["mirror"] # NULL) =>
        LET o == signal["orig"][1]
            m == signal["mirror"][1]
        IN  /\ o.signal_type = "BUY" =>
                  /\ m.signal_type = "SELL"
                  /\ m.confidence_score = o.confidence_score
                  /\ m.post_count = o.post_count
            /\ o = NoSignal => m = NoSignal

\* posts that gave a BUY through the moderate tier, mirror image classified
C10_Witness ==
    /\ signal["orig"] # NULL
    /\ signal["mirror"] # NULL
    /\ signal["orig"][1].signal_type = "BUY"
    /\ signal["orig"][1].reasoning = "Moderate bullish sentiment"
    /\ posts["mirror"] # posts["orig"]

\* C19: get_performance_stats reports as winning_trades the number of closed
\* positions whose pnl is greater than 0 (of the positions its query finds
\* closed: one closed with pnl 0 is no win), as win_rate winning_trades /
\* closed_trades * 100, and as win_rate 0 when closed_trades is 0.
C19_WinRate ==
    [][/\ (spc = "closed_stats" /\ spc' = "posts_24h") =>
              LET closed == {i \in DOMAIN paper_trades :
                                paper_trades[i].status = "closed"}
                  wins   == {i \in closed :
                                /\ paper_trades[i].pnl # NULL
                                /\ RGt(paper_trades[i].pnl[1], RInt(0))}
              IN  /\ locals'.closed_stats[1].closed_count = Cardinality(closed)
                  /\ locals'.closed_stats[1].winning_trades = Cardinality(wins)
       /\ stats' # NULL =>
              /\ stats'[1].closed_trades = locals'.closed_stats[1].closed_count
              /\ stats'[1].winning_trades = locals'.closed_stats[1].winning_trades
              /\ stats'[1].win_rate =
                     IF stats'[1].closed_trades = 0 THEN RInt(0)
                     ELSE RMul(Rat(stats'[1].winning_trades,
                                   stats'[1].closed_trades), RInt(100))]_vars

\* the only position was closed at its entry price, so with pnl 0, and
\* get_performance_stats has returned since: one closed trade, no win
C19_Witness ==
    /\ Len(paper_trades) = 1
    /\ paper_trades[1].status = "closed"
    /\ paper_trades[1].pnl = Some(RInt(0))
    /\ stats # NULL
    /\ stats[1].closed_trades = 1
    /\ stats[1].winning_trades = 0
    /\ stats[1].win_rate = RInt(0)

(***************************************************************************)
(* Properties of the position sizer.                                       *)
(***************************************************************************)
\* the size with the scaled confidence clamped to 0 .. 1
SizeClamped(sig, balance, pct) ==
    LET confidence        == sig.confidence_score
        base_position     == RMul(balance, pct)
        scaled_confidence ==
            RMax(RInt(0), RMin(RInt(1), RDiv(RSub(confidence, Rat(3, 5)), Rat(2, 5))))
        size              ==
            RMul(base_position, RAdd(Rat(1, 2), RMul(Rat(1, 2), scaled_confidence)))
    IN  Round2(size)

\* C11: the size returned is round(base * (0.5 + 0.5 * scaled), 2) with scaled
\* clamped to 0 .. 1, so it lies between half the base position and the base
\* position, and a confidence below 0.6 gives half the base position.
C11_ClampedSize ==
    sized # NULL =>
        LET sig  == signal["orig"][1]
            base == RMul(account_balance, max_position_pct)
        IN  /\ sized[1] = SizeClamped(sig, account_balance, max_position_pct)
            /\ RLe(Round2(RMul(Rat(1, 2), base)), sized[1])
            /\ RLe(sized[1], Round2(base))
            /\ RLt(sig.confidence_score, Rat(3, 5))
                   => sized[1] = Round2(RMul(Rat(1, 2), base))

(***************************************************************************)
(* Properties of the aggregator.                                           *)
(***************************************************************************)
\* C12: for an empty filtered set the aggregate has post_count 0, the three
\* counts 0, and every numeric field present and 0: avg_sentiment_score,
\* avg_confidence, weighted_sentiment, bullish_pct and bearish_pct.
C12_EmptyAggregateComplete ==
    (aggregated["orig"] # NULL /\ aggregated["orig"][1].post_count = 0) =>
        LET agg == aggregated["orig"][1]
        IN  /\ agg.bullish_count = 0
            /\ agg.bearish_count = 0
            /\ agg.neutral_count = 0
            /\ \A k \in {"avg_sentiment_score", "avg_confidence",
                          "weighted_sentiment", "bullish_pct", "bearish_pct"} :
                   k \in DOMAIN agg /\ agg[k] = RInt(0)

\* the weight of the claim: the engagement, 1 when it is zero or absent
C13_Weight(p) ==
    IF "score" \notin DOMAIN p THEN 1 ELSE IF p.score < 1 THEN 1 ELSE p.score

\* the weighted mean of the sentiment scores of the sequence q of posts
C13_WeightedMean(q) ==
    RDiv(Sum([i \in DOMAIN q |-> RMul(q[i].sentiment_score, RInt(C13_Weight(q[i])))]),
         Sum([i \in DOMAIN q |-> RInt(C13_Weight(q[i]))]))

\* a and b differ by one rounding at most
Near(a, b) == RLe(RSub(a, b), Ulp) /\ RLe(RSub(b, a), Ulp)

\* C13: for a non-empty filtered set, weighted_sentiment is the float value of
\* sum(score_i * w_i) / sum(w_i) over every filtered record, w_i the
\* engagement floored at 1: within one rounding of the exact quotient, and
\* the exact quotient when every score is exact in binary.
C13_WeightedSentiment ==
    (aggregated["orig"] # NULL /\ aggregated["orig"][1].post_count > 0) =>
        LET q   == RelevantPosts(posts["orig"], asset_arg)
            agg == aggregated["orig"][1]
        IN  /\ Near(agg.weighted_sentiment, C13_WeightedMean(q))
            /\ (\A i \in DOMAIN q : Exact(q[i].sentiment_score))
                   => agg.weighted_sentiment = C13_WeightedMean(q)

\* two relevant posts, one of them with zero engagement, have been aggregated
C13_Witness ==
    /\ aggregated["orig"] # NULL
    /\ aggregated["orig"][1].post_count = 2
    /\ asset_arg = "btc"
    /\ \E i \in DOMAIN posts["orig"] :
           /\ "score" \in DOMAIN posts["orig"][i]
           /\ posts["orig"][i].score = 0
    /\ \E i \in DOMAIN posts["orig"] :
           /\ "score" \in DOMAIN posts["orig"][i]
           /\ posts["orig"][i].score = 10
           /\ posts["orig"][i].mentioned_assets = <<"BTC">>
    /\ aggregated["orig"][1].weighted_sentiment = Fl(Rat(9, 11), rounding.weighted_sentiment)

\* C14: the sentiment scores of the posts lie in -1 .. 1, their engagement is
\* zero, positive or negative: weighted_sentiment lies in -1 .. 1.
C14_WeightedInRange ==
    aggregated["orig"] # NULL =>
        /\ RLe(RInt(-1), aggregated["orig"][1].weighted_sentiment)
        /\ RLe(aggregated["orig"][1].weighted_sentiment, RInt(1))

\* a post with negative engagement and one with engagement 10 have been
\* aggregated: the first weighs 1, the second 10
C14_Witness ==
    /\ aggregated["orig"] # NULL
    /\ asset_arg = "BTC"
    /\ Len(posts["orig"]) = 2
    /\ Get(posts["orig"][1], "score", 1) = -5
    /\ Get(posts["orig"][2], "score", 1) = 10
    /\ aggregated["orig"][1].weighted_sentiment =
           Fl(Rat(36, 55), rounding.weighted_sentiment)

\* two tickers are the same symbol, whatever the case of their letters
C15_SameSymbol(a, b) ==
    \/ a = b
    \/ {a, b} = {"btc", "BTC"}
    \/ {a, b} = {"eth", "ETH"}

\* C15: with an asset, post_count is the number of posts one of whose
\* mentioned_assets is that asset, the case of the letters ignored and the
\* whole symbol compared; without, it is the number of posts and the
\* aggregate's asset is ALL.
C15_FilterByAsset ==
    aggregated["orig"] # NULL =>
        LET q   == posts["orig"]
            agg == aggregated["orig"][1]
            Mentioned(p) ==
                IF "mentioned_assets" \in DOMAIN p
                THEN {p.mentioned_assets[j] : j \in DOMAIN p.mentioned_assets}
                ELSE {}
        IN  IF asset_arg # ""
            THEN /\ agg.post_count =
                        Cardinality({i \in DOMAIN q :
                                        \E a \in Mentioned(q[i]) :
                                            C15_SameSymbol(a, asset_arg)})
                 /\ agg.asset = asset_arg
            ELSE /\ agg.post_count = Len(q)
                 /\ agg.asset = "ALL"

\* asset btc, a post that mentions BTC, one that mentions BTCX only and one
\* that mentions no asset: one post counted
C15_Witness ==
    /\ aggregated["orig"] # NULL
    /\ asset_arg = "btc"
    /\ Len(posts["orig"]) = 3
    /\ Get(posts["orig"][1], "mentioned_assets", <<>>) = <<"BTC">>
    /\ Get(posts["orig"][2], "mentioned_assets", <<>>) = <<"BTCX">>
    /\ "mentioned_assets" \notin DOMAIN posts["orig"][3]
    /\ aggregated["orig"][1].post_count = 1

(***************************************************************************)
(* Properties of the batch generator.                                      *)
(***************************************************************************)
\* C16: the candidates are derived from the posts only when target_assets is
\* absent; when it is given, the empty list included, every signal returned
\* is for one of its members (so none for the empty list).
C16_TargetsRespected ==
    \A k \in GenCalls :
        (generated[k] # NULL /\ target_assets.given) =>
            \A i \in DOMAIN generated[k][1].signals :
                generated[k][1].signals[i].asset \in Range(target_assets.assets)

\* the alphabetical order of the tickers
C17_Rank(ticker) ==
    CASE ticker = "BTC" -> 1
      [] ticker = "ETH" -> 2
      [] ticker = "SOL" -> 3
      [] OTHER -> 4

\* C17: with target_assets absent, two runs over the same posts return the
\* same signals in the same order, sorted by ticker.
C17_StableOrder ==
    (generated[1] # NULL /\ generated[2] # NULL /\ ~target_assets.given) =>
        /\ generated[1] = generated[2]
        /\ \A i, j \in DOMAIN generated[1][1].signals :
               i < j => C17_Rank(generated[1][1].signals[i].asset)
                            < C17_Rank(generated[1][1].signals[j].asset)

\* the posts all mention the one asset a and are all bullish with score s,
\* confidence c and a positive engagement
C18_Uniform(post_list, a, s, c) ==
    \A i \in DOMAIN post_list :
        /\ Get(post_list[i], "mentioned_assets", <<>>) = <<a>>
        /\ post_list[i].sentiment = "bullish"
        /\ post_list[i].sentiment_score = s
        /\ post_list[i].confidence = c
        /\ Get(post_list[i], "score", 0) > 0

\* C18: N >= min_posts posts that all mention one asset, all bullish with the
\* same score s > 0.5, the same confidence c >= min_confidence and positive
\* engagement give exactly one signal: a BUY for that asset with post_count N,
\* sentiment_score s and confidence_score min(c, 1) (the two floats up to one
\* rounding).  Stated for an environment in which the call can start.
C18_EndToEnd ==
    \A k \in GenCalls :
        (/\ generated[k] # NULL
         /\ api_key
         /\ ~target_assets.given
         /\ Len(records) >= min_posts
         /\ Len(records) > 0) =>
            LET a == Get(records[1], "mentioned_assets", <<>>)
                s == records[1].sentiment_score
                c == records[1].confidence
                out == generated[k][1]
            IN  (/\ Len(a) = 1
                 /\ C18_Uniform(records, a[1], s, c)
                 /\ RGt(s, Rat(1, 2))
                 /\ RLe(min_confidence, c)) =>
                    /\ out.raised = ""
                    /\ Len(out.signals) = 1
                    /\ out.signals[1].asset = a[1]
                    /\ out.signals[1].signal_type = "BUY"
                    /\ out.signals[1].post_count = Len(records)
                    /\ Near(out.signals[1].sentiment_score, s)
                    /\ Near(out.signals[1].confidence_score, RMin(c, RInt(1)))

\* C20: on well-formed posts a call of generate never fails, whether or not
\* ANTHROPIC_API_KEY is configured.
C20_NeverFails ==
    \A k \in GenCalls : generated[k] # NULL => generated[k][1].raised = ""

\* C25: with target_assets absent, a run returns at most one signal per
\* asset, the tickers compared without regard to case: posts that write btc
\* and BTC do not give two signals built from the same posts.
C25_OneSignalPerAsset ==
    \A k \in GenCalls :
        (generated[k] # NULL /\ ~target_assets.given) =>
            \A i, j \in DOMAIN generated[k][1].signals :
                Upper(generated[k][1].signals[i].asset)
                    = Upper(generated[k][1].signals[j].asset) => i = j

(***************************************************************************)
(* Further properties of the paper-trade store.                            *)
(***************************************************************************)
\* C21: out-of-range prices are rejected and not stored: every stored
\* position has entry_price > 0 and position_size > 0, and every closed
\* position has exit_price > 0.
C21_PricesValidated ==
    \A i \in DOMAIN paper_trades :
        /\ paper_trades[i].entry_price > 0
        /\ paper_trades[i].position_size > 0
        /\ paper_trades[i].status = "closed" =>
               /\ paper_trades[i].exit_price # NULL
               /\ paper_trades[i].exit_price[1] > 0

\* C24: a position has status open if and only if its pnl, exit_price and
\* closed_at are all absent, and status closed if and only if all three are
\* set.
C24_StatusMatchesFields ==
    \A i \in DOMAIN paper_trades :
        LET row    == paper_trades[i]
            absent == {k \in {"pnl", "exit_price", "closed_at"} : row[k] = NULL}
        IN  /\ row.status \in {"open", "closed"}
            /\ row.status = "open" <=> Cardinality(absent) = 3
            /\ row.status = "closed" <=> Cardinality(absent) = 0

\* a position that was closed, and closed once more at another price
C24_Witness ==
    /\ Len(paper_trades) = 1
    /\ paper_trades[1].status = "closed"
    /\ paper_trades[1].exit_price = Some(110)
    /\ \E c \in Closers : pc[c] = "update" /\ call[c].seen = "closed"

\* C26: a call of close_paper_trade, whether it updates a row, finds none or
\* raises, changes no position but the one with its trade_id, leaves the
\* number of positions as it is, and leaves the signals and the analyzed
\* posts as they are.
C26_CloseFrame ==
    [][\A c \in Closers :
          (pc'[c] # pc[c] \/ outcome'[c] # outcome[c]) =>
              LET id == IF pc[c] = "update" THEN call[c].trade_id
                        ELSE call'[c].trade_id
              IN  /\ Len(paper_trades') = Len(paper_trades)
                  /\ \A i \in DOMAIN paper_trades :
                         i # id => paper_trades'[i] = paper_trades[i]
                  /\ signals' = signals
                  /\ analyzed_posts' = analyzed_posts]_vars

\* caller c1 has closed position 1 at 90 while position 2 is open
C26_Witness ==
    /\ Len(paper_trades) = 2
    /\ paper_trades[1].status = "closed"
    /\ paper_trades[1].exit_price = Some(90)
    /\ paper_trades[2].status = "open"
    /\ outcome["c1"].state = "returned"
    /\ outcome["c1"].row_found
    /\ Len(signals) = 1

(***************************************************************************)
(* Further properties of the analyzed-posts store.                         *)
(***************************************************************************)
\* C22: the analyzed-posts store is insert-if-absent on post_id: no two
\* stored records share a post_id, a stored record keeps the fields of its
\* first insert, and an insert whose post_id is present leaves the store
\* unchanged and raises no error.
C22_InsertIfAbsent ==
    [][/\ \A i, j \in DOMAIN analyzed_posts' :
              analyzed_posts'[i].post_id = analyzed_posts'[j].post_id => i = j
       /\ \A i \in DOMAIN analyzed_posts :
              /\ i \in DOMAIN analyzed_posts'
              /\ analyzed_posts'[i] = analyzed_posts[i]
       /\ post_call' # post_call =>
              /\ post_call'[1].exception = ""
              /\ post_call'[1].row.post_id \in PostIdsStored =>
                     analyzed_posts' = analyzed_posts]_vars

\* a second insert of a stored post_id with other fields has returned, next
\* to a record of another post_id
C22_Witness ==
    /\ post_call # NULL
    /\ post_call[1].integrity_error
    /\ Len(analyzed_posts) = 2
    /\ \E i \in DOMAIN analyzed_posts :
           /\ analyzed_posts[i].post_id = post_call[1].row.post_id
           /\ analyzed_posts[i] # post_call[1].row

(***************************************************************************)
(* Further properties of the aggregator.                                   *)
(***************************************************************************)
\* C23: aggregation is order-independent and pure: the posts in any other
\* order give the same aggregate (counts, percentages, averages and
\* weighted_sentiment), and the call leaves the posts as they were.
C23_OrderIndependent ==
    (aggregated["orig"] # NULL /\ aggregated["permuted"] # NULL) =>
        aggregated["permuted"] = aggregated["orig"]

====
